---- MODULE Spec2Model ----
(***************************************************************************)
(* html_parse_sync: the extraction pipeline of src/__init__.py.            *)
(*                                                                         *)
(* Strings.  A Python str is modelled as a run-length encoded sequence of  *)
(* lexemes: a sequence of runs [c |-> lexeme, n |-> repetitions].  A       *)
(* lexeme is either one character ("a", " ", "\n", ...) or one whole       *)
(* markup token (a tag such as "<li>", an entity such as "&amp;").  The    *)
(* text of the string is the concatenation of its lexemes, so a run        *)
(* [c |-> "a", n |-> 100000] is the 100000-character string "aaa...".      *)
(* Plain text never contains "<" or ">" (they would be entities), so the   *)
(* regular expressions of the source, which all start at "<" and stop at   *)
(* ">", match whole tag lexemes and never a part of one.                   *)
(***************************************************************************)
EXTENDS Integers, Sequences, FiniteSets, TLC

VARIABLES
    fn,      \* the entry point being called
    args,    \* its arguments
    pc,      \* "call" before the call, "done" after it returned
    ret      \* what it returned

vars == <<fn, args, pc, ret>>

\* ---------------------------------------------------------------- strings

R(c, n) == [c |-> c, n |-> n]

Ch(c) == <<R(c, 1)>>

\* One-character lexemes that have no ASCII spelling.
Bullet == "BULLET"        \* U+2022
Ellipsis == "ELLIPSIS"    \* U+2026
Nbsp == "NBSP"            \* U+00A0

\* len() of one lexeme.
Width(c) == IF c \in {Bullet, Ellipsis, Nbsp} THEN 1 ELSE Len(c)

\* What str.isspace() holds of, among the characters of the model.
Whitespace == {" ", "\t", "\n", "\r", Nbsp}

Max(S) == CHOOSE x \in S : \A y \in S : y <= x

Min2(a, b) == IF a <= b THEN a ELSE b

Max2(a, b) == IF a >= b THEN a ELSE b

\* The canonical form of a string: no empty run, equal neighbours merged.
\* Markup lexemes (wider than one character) stay one run each.
RECURSIVE Norm(_)
Norm(s) ==
    IF s = <<>> THEN <<>>
    ELSE LET h == Head(s)
             t == Norm(Tail(s))
         IN  IF h.n = 0 THEN t
             ELSE IF t # <<>> /\ t[1].c = h.c /\ Width(h.c) = 1
                  THEN <<R(h.c, h.n + t[1].n)>> \o Tail(t)
                  ELSE <<h>> \o t

\* a + b
Cat(a, b) == Norm(a \o b)

\* len(s)
RECURSIVE StrLen(_)
StrLen(s) ==
    IF s = <<>> THEN 0
    ELSE Width(Head(s).c) * Head(s).n + StrLen(Tail(s))

\* s[:k] for k >= 0.  Sliced strings are rendered text, whose lexemes are
\* all one character wide; of a wider lexeme only whole copies are kept.
RECURSIVE Take(_, _)
Take(s, k) ==
    IF k <= 0 \/ s = <<>> THEN <<>>
    ELSE LET h == Head(s)
             w == Width(h.c)
         IN  IF w * h.n <= k
             THEN <<h>> \o Take(Tail(s), k - w * h.n)
             ELSE Norm(<<R(h.c, k \div w)>>)

\* s.rfind(c, 0, e): the greatest index i < e with s[i] = c, or -1.
RFind(s, c, e) ==
    LET p == Take(s, e)
        at == {i \in 1..Len(p) : p[i].c = c}
    IN  IF at = {} THEN -1 ELSE StrLen(SubSeq(p, 1, Max(at))) - 1

\* s.rstrip()
RECURSIVE RStrip(_)
RStrip(s) ==
    IF s = <<>> THEN <<>>
    ELSE IF s[Len(s)].c \in Whitespace THEN RStrip(SubSeq(s, 1, Len(s) - 1))
    ELSE s

\* s.lstrip()
RECURSIVE LStrip(_)
LStrip(s) ==
    IF s = <<>> THEN <<>>
    ELSE IF Head(s).c \in Whitespace THEN LStrip(Tail(s))
    ELSE s

\* s.strip()
Strip(s) == LStrip(RStrip(s))

\* len(s.split()): the runs of non-whitespace lexemes of s, each started by
\* a lexeme that is first or follows whitespace.
SplitCount(s) ==
    Cardinality({i \in 1..Len(s) :
        /\ s[i].c \notin Whitespace
        /\ (i = 1 \/ s[i - 1].c \in Whitespace)})

\* re.sub(r"\s+", " ", s)
RECURSIVE CollapseWs(_)
CollapseWs(s) ==
    IF s = <<>> THEN <<>>
    ELSE LET h == Head(s)
             t == CollapseWs(Tail(s))
         IN  IF h.c \in Whitespace
             THEN IF t # <<>> /\ t[1] = R(" ", 1) THEN t ELSE Ch(" ") \o t
             ELSE <<h>> \o t

\* s.endswith(x) and s.startswith(x), on canonical strings whose lexemes x
\* does not split.
EndsWith(s, x) ==
    /\ Len(s) >= Len(x)
    /\ SubSeq(s, Len(s) - Len(x) + 1, Len(s)) = x

StartsWith(s, x) ==
    /\ Len(s) >= Len(x)
    /\ SubSeq(s, 1, Len(x)) = x

\* The digits of a natural number: str(n).
Digit(d) ==
    CASE d = 0 -> "0" [] d = 1 -> "1" [] d = 2 -> "2" [] d = 3 -> "3"
      [] d = 4 -> "4" [] d = 5 -> "5" [] d = 6 -> "6" [] d = 7 -> "7"
      [] d = 8 -> "8" [] d = 9 -> "9"

RECURSIVE StrOfNat(_)
StrOfNat(k) ==
    IF k < 10 THEN Ch(Digit(k))
    ELSE Cat(StrOfNat(k \div 10), Ch(Digit(k % 10)))

\* ------------------------------------------------------------ truncation

DEFAULT_MAX_CHARS == 8000

\* An "int | None" parameter is a set of integers: {} is None, {k} is k.
None == {}

Some(k) == {k}

Val(n) == CHOOSE k \in n : TRUE

\* A variant of _cap_chars that makes room for the "..." inside the cap.
_cap_chars_total(s, n) ==
    IF s = <<>> THEN <<>>
    ELSE LET k == IF n = None THEN DEFAULT_MAX_CHARS ELSE Val(n)
         IN  IF k # 0 /\ k > 0 /\ StrLen(s) > k
             THEN Cat(Take(s, k - 3), <<R(".", 3)>>)
             ELSE s

_cap_chars(s, n) ==
    IF s = <<>> THEN <<>>
    ELSE LET k == IF n = None THEN DEFAULT_MAX_CHARS ELSE Val(n)
         IN  IF k # 0 /\ k > 0 /\ StrLen(s) > k
             THEN Cat(Take(s, k), <<R(".", 3)>>)
             ELSE s

_cap_wordsafe(s, n) ==
    IF s = <<>> THEN <<>>
    ELSE LET k == IF n = None THEN DEFAULT_MAX_CHARS ELSE Val(n)
         IN  IF ~(k # 0 /\ k > 0) \/ StrLen(s) <= k THEN s
             ELSE LET found == RFind(s, " ", Max2(0, k - 1))
                      \* cut < n * 0.5, in integers
                      cut == IF found = -1 \/ 2 * found < k THEN k ELSE found
                      truncated == RStrip(Take(s, cut))
                  IN  Cat(truncated, <<R(" ", 1), R(Ellipsis, 1)>>)

\* A variant of _word_count that splits at spaces only: split(" ").
_word_count_spaces(s) ==
    Cardinality({i \in 1..Len(Strip(s)) :
        /\ Strip(s)[i].c # " "
        /\ (i = 1 \/ Strip(s)[i - 1].c = " ")})

_word_count(s) == SplitCount(Strip(s))

\* ------------------------------------------------------------------ markup
\* The markup lexemes of the model, and for each regular expression of the
\* source the lexemes it matches.  A pattern "<name[^>]*>" matches every
\* opening tag whose text starts with "<name": "<li" also starts "<link".

LinkCanonical == "<link rel=\"canonical\" href=\"https://www.example.co.uk/path\">"
LinkHrefFirst == "<link href=\"http://example.org/\" rel=\"canonical\">"
MetaOgUrl == "<meta property=\"og:url\" content=\"https://blog.example.com/a\">"
BaseHref == "<base href=\"//example.net/\">"
MetaOgTitle == "<meta property=\"og:title\" content=\"T\">"
MetaAuthor == "<meta name=\"author\" content=\"Y\">"
SpanAuthor == "<span class=\"author\">"
ARelAuthor == "<a rel=\"author\">"
H2PostTitle == "<h2 class=\"post-title\">"
DivContent == "<div class=\"content\">"
DivSidebar == "<div class=\"sidebar\">"
Comment == "<!--c-->"

OpenTags ==
    {"<article>", "<main>", DivContent, DivSidebar, "<div>", "<body>", "<p>",
     "<ul>", "<li>", "<h1>", H2PostTitle, "<br>", "<b>", "<table>", "<tr>",
     "<td>", "<script>", "<style>", "<nav>", "<title>", MetaAuthor,
     MetaOgTitle, MetaOgUrl, LinkCanonical, LinkHrefFirst, BaseHref,
     SpanAuthor, ARelAuthor}

\* </[^>]+>
CloseTags ==
    {"</article>", "</main>", "</div>", "</body>", "</p>", "</ul>", "</li>",
     "</h1>", "</h2>", "</b>", "</table>", "</tr>", "</td>", "</script>",
     "</style>", "</nav>", "</title>", "</span>", "</a>"}

\* <[^>]+> and <[^>]*>
Tags == OpenTags \cup CloseTags \cup {Comment}

\* The entities html.unescape() replaces, with their characters.
Entities == {"&amp;", "&nbsp;"}

EntityChar(c) == IF c = "&amp;" THEN "&" ELSE Nbsp

\* A string of separate lexemes, one run each (URLs, attribute values).
Lex(seq) == [i \in 1..Len(seq) |-> R(seq[i], 1)]

\* The value the pattern's group captures in an attribute-bearing lexeme.
AttrValue(c) ==
    CASE c = LinkCanonical ->
           Lex(<<"https", ":", "//", "www", ".", "example", ".", "co", ".",
                 "uk", "/", "path">>)
      [] c = LinkHrefFirst ->
           Lex(<<"http", ":", "//", "example", ".", "org", "/">>)
      [] c = MetaOgUrl ->
           Lex(<<"https", ":", "//", "blog", ".", "example", ".", "com", "/", "a">>)
      [] c = BaseHref -> Lex(<<"//", "example", ".", "net", "/">>)
      [] c = MetaOgTitle -> Ch("T")
      [] c = MetaAuthor -> Ch("Y")
      [] OTHER -> <<>>

RECURSIVE Flatten(_)
Flatten(ss) == IF ss = <<>> THEN <<>> ELSE Head(ss) \o Flatten(Tail(ss))

\* re.sub(pattern, repl, s) for a pattern that matches single lexemes (the
\* set lexemes) and a constant replacement repl.
Sub(s, lexemes, repl) ==
    Norm(Flatten([i \in 1..Len(s) |->
                     IF s[i].c \in lexemes THEN repl ELSE <<s[i]>>]))

\* x repeated k times.
RECURSIVE Rep(_, _)
Rep(x, k) == IF k <= 0 THEN <<>> ELSE x \o Rep(x, k - 1)

\* re.search of "open [\s\S]*? close": the leftmost opening lexeme that a
\* closing lexeme follows, and the first closing lexeme after it.
\* [found, i, j]: the match is s[i..j].
Search(s, opens, closes) ==
    LET os == {i \in 1..Len(s) :
                  /\ s[i].c \in opens
                  /\ \E j \in (i + 1)..Len(s) : s[j].c \in closes}
    IN  IF os = {} THEN [found |-> FALSE, i |-> 0, j |-> 0]
        ELSE LET i == CHOOSE x \in os : \A y \in os : x <= y
                 js == {j \in (i + 1)..Len(s) : s[j].c \in closes}
             IN  [found |-> TRUE, i |-> i,
                  j |-> CHOOSE x \in js : \A y \in js : x <= y]

\* The group ([\s\S]*?) of such a match.
Inner(s, m) == SubSeq(s, m.i + 1, m.j - 1)

\* re.sub(r"open[\s\S]*?close", "", s)
RECURSIVE RemoveSpans(_, _, _)
RemoveSpans(s, opens, closes) ==
    LET m == Search(s, opens, closes)
    IN  IF ~m.found THEN s
        ELSE SubSeq(s, 1, m.i - 1)
                 \o RemoveSpans(SubSeq(s, m.j + 1, Len(s)), opens, closes)

\* re.search of a pattern that matches one lexeme: its index, or 0.
First(s, lexemes) ==
    LET at == {i \in 1..Len(s) : s[i].c \in lexemes}
    IN  IF at = {} THEN 0 ELSE CHOOSE x \in at : \A y \in at : x <= y

\* html.unescape(s)
_unescape(s) ==
    Norm(Flatten([i \in 1..Len(s) |->
                     IF s[i].c \in Entities
                     THEN <<R(EntityChar(s[i].c), s[i].n)>> ELSE <<s[i]>>]))

\* --------------------------------------------------------- URL discovery

_discover_url(html, passed) ==
    IF passed # <<>> THEN passed
    ELSE LET relFirst == First(html, {LinkCanonical})
             m1 == IF relFirst # 0 THEN relFirst ELSE First(html, {LinkHrefFirst})
             m2 == First(html, {MetaOgUrl})
             m3 == First(html, {BaseHref})
         IN  IF m1 # 0 THEN AttrValue(html[m1].c)
             ELSE IF m2 # 0 THEN AttrValue(html[m2].c)
             ELSE IF m3 # 0 THEN AttrValue(html[m3].c)
             ELSE <<>>

\* ------------------------------------------------------- domain splitter
\* A URL is a string of separate lexemes: "https", ":", "//", ".", "/", the
\* labels of the host, and so on.  A suffix such as ".co.uk" starts at a "."
\* lexeme, so endswith() on characters is endswith() on lexemes.

\* str.lower() of one lexeme.
Lower(c) ==
    CASE c = "COM" -> "com" [] c = "WWW" -> "www" [] c = "HTTPS" -> "https"
      [] OTHER -> c

LowerStr(s) == [i \in 1..Len(s) |-> R(Lower(s[i].c), s[i].n)]

\* The lexemes that hold a character outside letters, digits, "+", "-", ".".
NotSchemeChars == {" ", "/", "//", ":", "[", "@"}

\* The index of the first lexeme of s from i on that is in stop, or Len(s)+1.
RECURSIVE Until(_, _, _)
Until(s, i, stop) ==
    IF i > Len(s) \/ s[i].c \in stop THEN i ELSE Until(s, i + 1, stop)

\* urllib.parse.urlparse(u).hostname: [raises, host], host "" for None.
\* The URLs of the model hold no control character, "?", "#" or "]".
urlparse_hostname(u) ==
    LET i == Until(u, 1, {":"})
        hasScheme == /\ i <= Len(u) /\ i > 1
                     /\ \A k \in 1..(i - 1) : u[k].c \notin NotSchemeChars
                     /\ u[1].c \notin {".", "8080"}
        url == IF hasScheme THEN SubSeq(u, i + 1, Len(u)) ELSE u
        hasNetloc == url # <<>> /\ url[1].c = "//"
        netloc == IF hasNetloc
                  THEN SubSeq(url, 2, Until(url, 2, {"/", "//"}) - 1)
                  ELSE <<>>
        ats == {k \in 1..Len(netloc) : netloc[k].c = "@"}
        hostinfo == IF ats = {} THEN netloc
                    ELSE SubSeq(netloc, Max(ats) + 1, Len(netloc))
        hostname == SubSeq(hostinfo, 1, Until(hostinfo, 1, {":"}) - 1)
    IN  IF \E k \in 1..Len(netloc) : netloc[k].c = "["
        THEN [raises |-> TRUE, host |-> <<>>]
        ELSE [raises |-> FALSE, host |-> LowerStr(hostname)]

\* ".co.uk" from <<"co", "uk">>
Dots(labels) ==
    Lex([i \in 1..(2 * Len(labels)) |->
            IF i % 2 = 1 THEN "." ELSE labels[i \div 2]])

exts ==
    << Dots(<<"co", "uk">>), Dots(<<"com", "au">>), Dots(<<"co", "za">>),
       Dots(<<"co", "in">>), Dots(<<"co", "jp">>), Dots(<<"co", "kr">>),
       Dots(<<"com">>), Dots(<<"net">>), Dots(<<"org">>), Dots(<<"edu">>),
       Dots(<<"gov">>), Dots(<<"mil">>), Dots(<<"int">>),
       Dots(<<"info">>), Dots(<<"biz">>), Dots(<<"name">>), Dots(<<"pro">>),
       Dots(<<"museum">>), Dots(<<"coop">>),
       Dots(<<"uk">>), Dots(<<"de">>), Dots(<<"fr">>), Dots(<<"it">>),
       Dots(<<"es">>), Dots(<<"nl">>), Dots(<<"be">>), Dots(<<"ch">>),
       Dots(<<"at">>),
       Dots(<<"se">>), Dots(<<"no">>), Dots(<<"dk">>), Dots(<<"fi">>),
       Dots(<<"pl">>), Dots(<<"cz">>), Dots(<<"hu">>),
       Dots(<<"io">>), Dots(<<"ai">>), Dots(<<"ly">>), Dots(<<"me">>),
       Dots(<<"tv">>), Dots(<<"cc">>), Dots(<<"ws">>), Dots(<<"blog">>) >>

\* seq without its element at index k
Without(seq, k) == SubSeq(seq, 1, k - 1) \o SubSeq(seq, k + 1, Len(seq))

\* A variant of the sort without reverse=True: shortest first.
RECURSIVE SortByLen(_)
SortByLen(seq) ==
    IF seq = <<>> THEN <<>>
    ELSE LET shortest == CHOOSE n \in {StrLen(seq[k]) : k \in 1..Len(seq)} :
                             \A k \in 1..Len(seq) : n <= StrLen(seq[k])
             ks == {k \in 1..Len(seq) : StrLen(seq[k]) = shortest}
             k == CHOOSE x \in ks : \A y \in ks : x <= y
         IN  <<seq[k]>> \o SortByLen(Without(seq, k))

\* list.sort(key=len, reverse=True): by length, longest first, equal lengths
\* in their order of the list.
RECURSIVE SortByLenReverse(_)
SortByLenReverse(seq) ==
    IF seq = <<>> THEN <<>>
    ELSE LET longest == Max({StrLen(seq[k]) : k \in 1..Len(seq)})
             ks == {k \in 1..Len(seq) : StrLen(seq[k]) = longest}
             k == CHOOSE x \in ks : \A y \in ks : x <= y
         IN  <<seq[k]>> \o SortByLenReverse(Without(seq, k))

exts_sorted == SortByLenReverse(exts)

\* The for loop over exts: site without the first ext it ends with.
RECURSIVE StripFirstExt(_, _, _)
StripFirstExt(site, es, k) ==
    IF k > Len(es) THEN site
    ELSE IF EndsWith(site, es[k])
         THEN SubSeq(site, 1, Len(site) - Len(es[k]))
         ELSE StripFirstExt(site, es, k + 1)

Unknown == Ch("unknown")

\* re.search(r'https?://(?:www\.)?([^/]+)', u): [found, host]
FallbackSearch(u) ==
    LET Group(i) ==
            LET a == i + 3
                www == a + 1 <= Len(u) /\ u[a].c = "www" /\ u[a + 1].c = "."
                b == IF www THEN a + 2 ELSE a
                e == Until(u, b, {"/", "//"})
            IN  IF e > b THEN SubSeq(u, b, e - 1)
                ELSE SubSeq(u, a, Until(u, a, {"/", "//"}) - 1)
        at == {i \in 1..(Len(u) - 2) :
                  /\ u[i].c \in {"http", "https"}
                  /\ u[i + 1].c = ":"
                  /\ u[i + 2].c = "//"
                  /\ Group(i) # <<>>}
    IN  IF at = {} THEN [found |-> FALSE, host |-> <<>>]
        ELSE [found |-> TRUE,
              host |-> Group(CHOOSE x \in at : \A y \in at : x <= y)]

\* (\.co\.uk|\.com\.au|\.com|\.net|\.org)$ with re.I
FallbackExts ==
    << Dots(<<"co", "uk">>), Dots(<<"com", "au">>), Dots(<<"com">>),
       Dots(<<"net">>), Dots(<<"org">>) >>

\* re.sub of that pattern by "": the leftmost match is the longest suffix.
FallbackStrip(host) ==
    LET ks == {k \in 1..Len(FallbackExts) :
                  EndsWith(LowerStr(host), FallbackExts[k])}
    IN  IF ks = {} THEN host
        ELSE LET k == CHOOSE x \in ks :
                          \A y \in ks : Len(FallbackExts[x]) >= Len(FallbackExts[y])
             IN  SubSeq(host, 1, Len(host) - Len(FallbackExts[k]))

\* A variant of _extract_domain_site that goes to the regex when the parsed
\* hostname is empty, and not only when parsing raises.
_extract_domain_site_regex(u) ==
    LET p == urlparse_hostname(u)
    IN  IF ~p.raises /\ p.host # <<>>
        THEN LET h0 == p.host
                 host == IF StartsWith(h0, Lex(<<"www", ".">>))
                         THEN SubSeq(h0, 3, Len(h0)) ELSE h0
                 site == StripFirstExt(host, exts_sorted, 1)
             IN  << IF host # <<>> THEN host ELSE Unknown,
                    IF site # <<>> THEN site ELSE Unknown >>
        ELSE LET m == FallbackSearch(u)
             IN  IF m.found THEN <<m.host, FallbackStrip(m.host)>>
                 ELSE <<Unknown, Unknown>>

\* (domain, site_name)
_extract_domain_site(u) ==
    LET p == urlparse_hostname(u)
    IN  IF ~p.raises
        THEN LET h0 == p.host
                 host == IF StartsWith(h0, Lex(<<"www", ".">>))
                         THEN SubSeq(h0, 3, Len(h0)) ELSE h0
                 site == StripFirstExt(host, exts_sorted, 1)
             IN  << IF host # <<>> THEN host ELSE Unknown,
                    IF site # <<>> THEN site ELSE Unknown >>
        ELSE LET m == FallbackSearch(u)
             IN  IF m.found THEN <<m.host, FallbackStrip(m.host)>>
                 ELSE <<Unknown, Unknown>>

\* ------------------------------------------------------------- sanitizer

\* <(nav|header|footer|aside|iframe|noscript|template) and its closing tags
_BLOCK_TAGS_open == {"<nav>"}

_BLOCK_TAGS_close == {"</nav>"}

\* Opening tags whose class attribute holds one of the keywords comment,
\* comments, sidebar, advert, ads, ad-, promo, newsletter, cookie, consent,
\* subscribe.
StripClassTags == {DivSidebar}

_strip_blocks(html) ==
    LET h1 == RemoveSpans(html, {"<script>"}, {"</script>"})
        h2 == RemoveSpans(h1, {"<style>"}, {"</style>"})
        h3 == Sub(h2, {Comment}, <<>>)
        h4 == RemoveSpans(h3, _BLOCK_TAGS_open, _BLOCK_TAGS_close)
        h5 == RemoveSpans(h4, StripClassTags, CloseTags)
    IN  Norm(h5)

\* ------------------------------------------------------ section selector

\* The class keyword that group 1 of the third pattern captures.
ContentKeyword(c) == IF c = DivContent THEN Ch("content") ELSE <<>>

\* Each pattern: its opening lexemes, its closing lexemes, and whether a
\* keyword group comes before the group of the contents.
_CANDIDATES ==
    << [opens |-> {"<article>"}, closes |-> {"</article>"}, keyword |-> FALSE],
       [opens |-> {"<main>"}, closes |-> {"</main>"}, keyword |-> FALSE],
       [opens |-> {DivContent}, closes |-> {"</div>"}, keyword |-> TRUE] >>

\* The groups of a match of pattern rx; m.lastindex is their number.
Groups(html, rx, m) ==
    IF rx.keyword THEN <<ContentKeyword(html[m.i].c), Inner(html, m)>>
    ELSE <<Inner(html, m)>>

\* (m.group(1) if m.lastindex >= 1 else "") or (m.group(2) if ... else "")
Payload(g) ==
    IF Len(g) >= 1 /\ g[1] # <<>> THEN g[1]
    ELSE IF Len(g) >= 2 THEN g[2]
    ELSE <<>>

\* The loop of _pick_section from pattern k on, with the best so far.
RECURSIVE PickLoop(_, _, _)
PickLoop(html, k, best) ==
    IF k > Len(_CANDIDATES) THEN best
    ELSE LET rx == _CANDIDATES[k]
             m == Search(html, rx.opens, rx.closes)
             payload == Payload(Groups(html, rx, m))
         IN  IF m.found
                /\ StrLen(CollapseWs(payload)) > StrLen(CollapseWs(best))
             THEN PickLoop(html, k + 1, payload)
             ELSE PickLoop(html, k + 1, best)

_pick_section(html) ==
    LET best == PickLoop(html, 1, <<>>)
    IN  IF best # <<>> THEN best
        ELSE LET m == Search(html, {"<body>"}, {"</body>"})
             IN  IF m.found /\ Inner(html, m) # <<>> THEN Inner(html, m)
                 ELSE html

\* ------------------------------------------------------ field extractors

_clean(s) ==
    LET text == Sub(s, Tags, <<>>)
    IN  Strip(CollapseWs(_unescape(text)))

_extract_title(html) ==
    LET h1 == Search(html, {"<h1>"}, {"</h1>"})
        og == First(html, {MetaOgTitle})
        tt == Search(html, {"<title>"}, {"</title>"})
        \* of the model's lexemes only an <h2> carries a title class
        alt == Search(html, {H2PostTitle}, {"</h2>"})
    IN  IF h1.found THEN _clean(Inner(html, h1))
        ELSE IF og # 0 THEN _clean(AttrValue(html[og].c))
        ELSE IF tt.found THEN _clean(Inner(html, tt))
        ELSE IF alt.found THEN _clean(Inner(html, alt))
        ELSE <<>>

_extract_author(html) ==
    LET meta == First(html, {MetaAuthor})
        inline == Search(html, {SpanAuthor}, {"</span>", "</div>"})
        rel == Search(html, {ARelAuthor}, {"</a>"})
    IN  IF meta # 0 THEN _clean(AttrValue(html[meta].c))
        ELSE IF inline.found THEN _clean(Inner(html, inline))
        ELSE IF rel.found THEN _clean(Inner(html, rel))
        ELSE <<>>

\* --------------------------------------------------------- text renderer

\* <(/?)(p|div|section|article|li|ul|ol|h1|h2|h3|h4|blockquote)[^>]*>
BlockTags ==
    {"<p>", "</p>", "<div>", DivContent, DivSidebar, "</div>", "<article>",
     "</article>", "<li>", "</li>", LinkCanonical, LinkHrefFirst, "<ul>",
     "</ul>", "<h1>", "</h1>", H2PostTitle, "</h2>"}

\* the opening tags among them whose name matches h[1-4]$
HeadingTags == {"<h1>", H2PostTitle}

\* <li[^>]*>
LiTags == {"<li>", LinkCanonical, LinkHrefFirst}

repl_block(r) ==
    IF r.c \in CloseTags \/ r.c \in HeadingTags THEN Ch("\n") ELSE <<>>

table_to_text(t) ==
    LET t1 == Sub(t, {"<tr>"}, Ch("\n"))
        t2 == Sub(t1, {"</tr>"}, Ch("\n"))
        t3 == Sub(t2, {"<td>"}, Ch(" "))
        t4 == Sub(t3, {"</td>"}, Ch(" "))
    IN  Sub(t4, Tags, <<>>)

\* re.sub(r"<table[\s\S]*?</table>", table_to_text, s)
RECURSIVE SubTables(_)
SubTables(s) ==
    LET m == Search(s, {"<table>"}, {"</table>"})
    IN  IF ~m.found THEN s
        ELSE SubSeq(s, 1, m.i - 1)
                 \o table_to_text(SubSeq(s, m.i, m.j))
                 \o SubTables(SubSeq(s, m.j + 1, Len(s)))

Blank == {" ", "\t"}

\* The first index from i on that holds no space or tab.
RECURSIVE SkipBlank(_, _)
SkipBlank(s, i) ==
    IF i > Len(s) \/ s[i].c \notin Blank THEN i ELSE SkipBlank(s, i + 1)

\* re.sub(r"[ \t]+\n", "\n", s), s canonical
TrimLineEnds(s) ==
    LET Before(i) == LET j == SkipBlank(s, i)
                     IN  s[i].c \in Blank /\ j <= Len(s) /\ s[j].c = "\n"
    IN  Norm(Flatten([i \in 1..Len(s) |->
                         IF Before(i) THEN <<>> ELSE <<s[i]>>]))

\* re.sub(r"\n{3,}", "\n\n", s), s canonical
SquashNewlines(s) ==
    Norm(Flatten([i \in 1..Len(s) |->
                     IF s[i].c = "\n" /\ s[i].n >= 3
                     THEN <<R("\n", 2)>> ELSE <<s[i]>>]))

\* re.sub(r"[ \t]{2,}", " ", s), s canonical
RECURSIVE SquashBlanks(_)
SquashBlanks(s) ==
    IF s = <<>> THEN <<>>
    ELSE IF Head(s).c \notin Blank THEN <<Head(s)>> \o SquashBlanks(Tail(s))
    ELSE LET j == SkipBlank(s, 1)
             block == SubSeq(s, 1, j - 1)
         IN  (IF StrLen(block) >= 2 THEN Ch(" ") ELSE block)
                 \o SquashBlanks(SubSeq(s, j, Len(s)))

_html_to_text(snippet) ==
    LET s1 == Sub(snippet, {"<br>"}, Ch("\n"))
        s2 == Norm(Flatten([i \in 1..Len(s1) |->
                  IF s1[i].c \in BlockTags THEN repl_block(s1[i]) ELSE <<s1[i]>>]))
        s3 == Sub(s2, LiTags, <<R(Bullet, 1), R(" ", 1)>>)
        s4 == Norm(SubTables(s3))
        s5 == Sub(s4, Tags, <<>>)
        s6 == Sub(s5, {"\r"}, <<>>)
        s7 == TrimLineEnds(s6)
        s8 == SquashNewlines(s7)
        s9 == Norm(SquashBlanks(s8))
    IN  Strip(_unescape(s9))

\* ----------------------------------------------------- template renderer

__version__ == "0.1.3"

\* The keys of placeholders, in the order of the dict.
Keys ==
    <<"url", "domain", "site_name", "title", "content", "content_snip",
      "author", "word_count", "version", "extracted_at">>

KeySet == {Keys[i] : i \in 1..Len(Keys)}

\* str(v) of the value of key k: word_count is an int, the others are str.
ValueStr(p, k) == IF k = "word_count" THEN StrOfNat(p[k]) ELSE p[k]

\* The same string with every brace a run of its own, so that a run is one
\* brace, one field name, or text.
ExpandBraces(s) ==
    Flatten([i \in 1..Len(s) |->
                IF s[i].c \in {"{", "}"} THEN Rep(Ch(s[i].c), s[i].n)
                ELSE <<s[i]>>])

\* A variant of Field whose __missing__ returns the empty string.
Field_blank(name, p) ==
    IF Len(name) = 1 /\ name[1].n = 1 /\ name[1].c \in KeySet
    THEN ValueStr(p, name[1].c)
    ELSE <<>>

\* What a replacement field {name} formats to: the value of a known key,
\* else _Safe.__missing__(key), which is '{' + key + '}'.
Field(name, p) ==
    IF Len(name) = 1 /\ name[1].n = 1 /\ name[1].c \in KeySet
    THEN ValueStr(p, name[1].c)
    ELSE Ch("{") \o name \o Ch("}")

\* str.format_map from lexeme i of t on: [raises, out].  "{{" and "}}" are
\* escapes of one brace; a single "}" raises ValueError; a "{" opens a
\* replacement field, which ends at the next "}" and raises if a "{" or the
\* end of the template comes first, or if its name is empty (a positional
\* field).  The templates of the model hold none of "!", ":", ".", "[".
RECURSIVE FormatFrom(_, _, _)
FormatFrom(t, i, p) ==
    IF i > Len(t) THEN [raises |-> FALSE, out |-> <<>>]
    ELSE LET error == [raises |-> TRUE, out |-> <<>>]
             Then(piece, j) ==
                 LET r == FormatFrom(t, j, p)
                 IN  [raises |-> r.raises, out |-> piece \o r.out]
         IN  IF t[i].c = "{"
             THEN IF i = Len(t) THEN error
                  ELSE IF t[i + 1].c = "{" THEN Then(Ch("{"), i + 2)
                  ELSE LET j == Until(t, i + 1, {"{", "}"})
                       IN  IF j > Len(t) \/ t[j].c = "{" \/ j = i + 1 THEN error
                           ELSE Then(Field(SubSeq(t, i + 1, j - 1), p), j + 1)
             ELSE IF t[i].c = "}"
             THEN IF i < Len(t) /\ t[i + 1].c = "}" THEN Then(Ch("}"), i + 2)
                  ELSE error
             ELSE Then(<<t[i]>>, i + 1)

\* t.replace('{' + k + '}', v)
RECURSIVE Replace(_, _, _)
Replace(t, k, v) ==
    IF Len(t) < 3 THEN t
    ELSE IF t[1].c = "{" /\ t[2] = R(k, 1) /\ t[3].c = "}"
         THEN v \o Replace(SubSeq(t, 4, Len(t)), k, v)
         ELSE <<t[1]>> \o Replace(Tail(t), k, v)

\* The fallback loop over placeholders.items(), from key number i on.
RECURSIVE FallbackFrom(_, _, _)
FallbackFrom(t, i, p) ==
    IF i > Len(Keys) THEN t
    ELSE FallbackFrom(Replace(t, Keys[i], ExpandBraces(ValueStr(p, Keys[i]))),
                      i + 1, p)

\* formatted_prompt
RenderPrompt(prompt_template, p) ==
    IF prompt_template = <<>> THEN <<>>
    ELSE LET t == ExpandBraces(prompt_template)
             r == FormatFrom(t, 1, p)
         IN  IF ~r.raises THEN Norm(r.out) ELSE Norm(FallbackFrom(t, 1, p))

\* ------------------------------------------------------------------ json

\* The escape json.dumps(..., ensure_ascii=False) writes for a character.
JsonEscape(c) ==
    CASE c = "\"" -> "\\\"" [] c = "\\" -> "\\\\" [] c = "\n" -> "\\n"
      [] c = "\r" -> "\\r" [] c = "\t" -> "\\t" [] OTHER -> c

\* json.dumps of a str: quoted, its characters escaped.
JsonString(s) ==
    Ch("\"") \o [i \in 1..Len(s) |-> R(JsonEscape(s[i].c), s[i].n)] \o Ch("\"")

\* json.dumps(out, ensure_ascii=False): the members of the object in order,
\* each a key and the text of its value.
_json_dumps(p) ==
    [i \in 1..Len(Keys) |->
        [key |-> Keys[i],
         value |-> IF Keys[i] = "word_count" THEN StrOfNat(p[Keys[i]])
                   ELSE JsonString(p[Keys[i]])]]

\* ------------------------------------------------------------------- run

\* int(x): x is an integer or a value int() raises on.
py_int(x) == [raises |-> ~x.num, v |-> x.val]

\* Clamp bounds of max_chars.
MIN_CHARS == 100

MAX_CHARS == 100000

SNIP_CHARS == 1000

Cap(word_safe, s, n) == IF word_safe THEN _cap_wordsafe(s, n) ELSE _cap_chars(s, n)

\* A variant of EffectiveCap that takes the default for a value out of range.
EffectiveCap_default(max_chars) ==
    LET c == py_int(max_chars)
        max_chars_int == IF c.raises THEN DEFAULT_MAX_CHARS ELSE c.v
    IN  IF max_chars_int < 0 THEN None
        ELSE IF max_chars_int < MIN_CHARS \/ max_chars_int > MAX_CHARS
             THEN Some(DEFAULT_MAX_CHARS)
             ELSE Some(max_chars_int)

\* The cap run() passes for max_chars, or None where it does not cap.
EffectiveCap(max_chars) ==
    LET c == py_int(max_chars)
        max_chars_int == IF c.raises THEN DEFAULT_MAX_CHARS ELSE c.v
    IN  IF max_chars_int < 0 THEN None
        ELSE Some(Max2(MIN_CHARS, Min2(max_chars_int, MAX_CHARS)))

\* HTMLParseSync.run; utcnow is what datetime.utcnow().isoformat() reads.
run(html, url, max_chars, word_safe, prompt_template, utcnow) ==
    LET \* placeholders, out, and the tuple returned
        Return(discovered_url, ds, title, author, content, wc, content_snip) ==
            LET placeholders ==
                    [url |-> IF discovered_url # <<>> THEN discovered_url
                             ELSE Unknown,
                     domain |-> ds[1],
                     site_name |-> ds[2],
                     title |-> title,
                     content |-> content,
                     content_snip |-> content_snip,
                     author |-> author,
                     word_count |-> wc,
                     version |-> Ch(__version__),
                     extracted_at |-> <<R(utcnow, 1), R("Z", 1)>>]
            IN  [json |-> _json_dumps(placeholders),
                 title |-> title,
                 content |-> content,
                 author |-> author,
                 domain |-> ds[1],
                 site_name |-> ds[2],
                 word_count |-> StrOfNat(wc),
                 prompt |-> RenderPrompt(prompt_template, placeholders)]
        \* wc and content_snip, of the capped content
        Count(discovered_url, ds, title, author, content) ==
            Return(discovered_url, ds, title, author, content,
                   _word_count(content),
                   Cap(word_safe, content, Some(SNIP_CHARS)))
        \* content = cap(content, max_chars_int), unless capping is disabled
        Capped(discovered_url, ds, title, author, rendered, cap) ==
            Count(discovered_url, ds, title, author,
                  IF cap = None THEN rendered ELSE Cap(word_safe, rendered, cap))
        \* section, title, author, content, of the cleaned document
        Extract(discovered_url, cleaned) ==
            Capped(discovered_url, _extract_domain_site(discovered_url),
                   _extract_title(cleaned), _extract_author(cleaned),
                   _html_to_text(_pick_section(cleaned)),
                   EffectiveCap(max_chars))
    IN  Extract(_discover_url(html, url), _strip_blocks(html))

\* ---------------------------------------------------------------- inputs
\* The arguments the calls are made with.

\* All sequences over S of length at most n.
SeqsUpTo(S, n) == UNION {[1..k -> S] : k \in 0..n}

\* --- run: documents whose text is long enough for every cap to matter

MaxWords == 2

WordLens == {45, 60, 8100, 100100}

Seps == {Ch(" "), Ch("<br>")}

RECURSIVE BodiesOf(_)
BodiesOf(k) ==
    IF k = 1 THEN {<<R("a", n)>> : n \in WordLens}
    ELSE {b \o s \o <<R("a", n)>> : b \in BodiesOf(k - 1), s \in Seps, n \in WordLens}

Bodies == {<<>>} \cup UNION {BodiesOf(k) : k \in 1..MaxWords}

Article(body) == Ch("<article>") \o body \o Ch("</article>")

MaxCharsInputs ==
    {[num |-> TRUE, val |-> v] : v \in {-1, 0, 50, 100, 150, 200000}}
        \cup {[num |-> FALSE, val |-> 0]}

DefaultMaxChars == [num |-> TRUE, val |-> DEFAULT_MAX_CHARS]

Now1 == "2024-01-01T00:00:00"

Now2 == "2024-01-01T00:00:00.000001"

RunArgs(html, url, max_chars, word_safe, prompt_template, utcnow) ==
    [html |-> html, url |-> url, max_chars |-> max_chars,
     word_safe |-> word_safe, prompt_template |-> prompt_template,
     utcnow |-> utcnow]

TruncationCalls ==
    {RunArgs(Article(b), <<>>, m, w, <<>>, Now1) :
        b \in Bodies, m \in MaxCharsInputs, w \in BOOLEAN}

\* --- run: templates

MaxTpl == 4

TplLex == {"{", "}", "title", "ghost"}

\* "{title} by {author} ({ghost})"
SpecTemplate ==
    Lex(<<"{", "title", "}", " ", "b", "y", " ", "{", "author", "}", " ", "(",
          "{", "ghost", "}", ")">>)

Templates == {Norm(Lex(t)) : t \in SeqsUpTo(TplLex, MaxTpl)} \cup {SpecTemplate}

\* title "X", author "Y"
DocXY ==
    Lex(<<"<h1>", "X", "</h1>", MetaAuthor>>) \o Article(Lex(<<"a", " ", "b">>))

\* title "{author}", author "Y"
DocBrace ==
    Lex(<<"<h1>", "{", "author", "}", "</h1>", MetaAuthor>>)
        \o Article(Lex(<<"a", " ", "b">>))

ExampleUrl ==
    Lex(<<"https", ":", "//", "www", ".", "example", ".", "com", "/", "path">>)

TemplateCalls ==
    {RunArgs(d, ExampleUrl, DefaultMaxChars, TRUE, t, Now1) :
        d \in {DocXY, DocBrace}, t \in Templates}

\* --- run: documents with metadata, blocks to strip and other containers

MaxHead == 2

DocChunks ==
    {Ch(LinkCanonical), Ch(MetaOgUrl), Ch(BaseHref),
     Ch(MetaOgTitle), Ch(MetaAuthor),
     Lex(<<"<title>", "X", "&amp;", "X", "</title>">>),
     Lex(<<"<h1>", "<b>", "X", "</b>", "&nbsp;", "X", "</h1>">>),
     Lex(<<SpanAuthor, "Y", "</span>">>),
     Lex(<<"<nav>", "<h1>", "x", "</h1>", "</nav>">>),
     Lex(<<DivSidebar, "x", "</div>">>),
     Article(Lex(<<"<p>", "a", "</p>", "<p>", "b", "</p>">>)),
     Lex(<<"<main>", "a", " ", "b", "&nbsp;", "a", "</main>">>),
     Lex(<<"<body>", "<ul>", "<li>", "a", "</li>", "</ul>", "</body>">>),
     Lex(<<DivContent, "<p>", "a", " ", "b", "</p>", "</div>">>)}

MetaDocs ==
    {Norm(Flatten(d)) : d \in SeqsUpTo(DocChunks, MaxHead)}
      \cup {Lex(<<LinkHrefFirst, H2PostTitle, "X", "</h2>", ARelAuthor, "Y",
                  "</a>", "<script>", "x", "</script>", Comment, "a", " ", "b">>)}

MetaCalls ==
    {RunArgs(d, <<>>, DefaultMaxChars, TRUE, <<>>, Now1) : d \in MetaDocs}
      \cup {RunArgs(Ch(MetaOgUrl) \o Article(Lex(<<"a", " ", "b">>)), u,
                    DefaultMaxChars, FALSE, SpecTemplate, Now2) :
               u \in {<<>>, ExampleUrl}}

RunCalls == TruncationCalls \cup TemplateCalls \cup MetaCalls

\* --- _extract_domain_site

MaxHost == 3

HostChunks ==
    {Lex(<<"example">>), Lex(<<".", "co">>), Lex(<<".", "uk">>),
     Lex(<<".", "com">>), Lex(<<".">>)}

Hosts == {Flatten(h) : h \in SeqsUpTo(HostChunks, MaxHost)}

\* What comes before the host: a scheme, no scheme, text before the scheme,
\* an unclosed bracket.
UrlHeads ==
    {Lex(<<"https", ":", "//">>), Lex(<<"//">>), <<>>,
     Lex(<<"see", " ", "https", ":", "//">>),
     Lex(<<"http", ":", "//", "[">>)}

Www == Lex(<<"www", ".">>)

Urls ==
    {h \o w \o b : h \in UrlHeads, w \in {<<>>, Www}, b \in Hosts}
      \cup {Lex(<<"https", ":", "//">>) \o w \o b \o Lex(<<"/", "path">>) :
               w \in {<<>>, Www}, b \in Hosts}
      \cup {Lex(<<"HTTPS", ":", "//", "WWW", ".", "example", ".", "COM", ":",
                  "8080", "/", "path">>),
            Lex(<<"http", ":", "//", "see", "@", "www", ".", "example", ".",
                  "org", "/">>),
            Lex(<<"http", ":", "//", "www", ".", "[", "example", ".", "COM">>),
            Lex(<<"see", " ", "//", "[">>)}

\* --- _html_to_text

MaxFrag == 3

FragLex == {"a", " ", "\n", "<li>", "</li>", "<p>", "</p>", "<br>", "<b>"}

Fragments ==
    {Norm(Lex(f)) : f \in SeqsUpTo(FragLex, MaxFrag)}
      \cup {Lex(<<"<ul>", "<li>", "a", "</li>", "<li>", "b", "</li>", "</ul>">>),
            Lex(<<"<table>", "<tr>", "<td>", "a", "</td>", "<td>", "b", "</td>",
                  "</tr>", "</table>">>),
            Norm(Lex(<<"a", " ", "\t", "\r", "\n", "\n", "\n", "\n", "&amp;", "b",
                       " ", " ", "&nbsp;">>))}

\* --- _pick_section

MaxSect == 2

SectLens == {0, 2, 7, 9}

SectChunks ==
    UNION {{Article(Norm(<<R("a", n)>>)),
            Ch("<main>") \o Norm(<<R("a", n)>>) \o Ch("</main>"),
            Ch(DivContent) \o Norm(<<R("a", n)>>) \o Ch("</div>"),
            Ch("<body>") \o Norm(<<R("a", n)>>) \o Ch("</body>")} : n \in SectLens}

SectDocs == {Norm(Flatten(d)) : d \in SeqsUpTo(SectChunks, MaxSect)}

\* --- _cap_wordsafe

MaxText == 5

MaxCap == 4

TextLex == {"a", " ", "\n"}

Texts == {Norm(Lex(t)) : t \in SeqsUpTo(TextLex, MaxText)}

Caps == {None} \cup {Some(k) : k \in 0..MaxCap}

\* ------------------------------------------------------------ the calls

Init == fn = "none" /\ args = <<>> /\ pc = "call" /\ ret = <<>>

Run ==
    /\ pc = "call"
    /\ \E a \in RunCalls :
          /\ fn' = "run"
          /\ args' = a
          /\ ret' = run(a.html, a.url, a.max_chars, a.word_safe,
                        a.prompt_template, a.utcnow)
    /\ pc' = "done"

ExtractDomainSite ==
    /\ pc = "call"
    /\ \E u \in Urls :
          /\ fn' = "_extract_domain_site"
          /\ args' = [u |-> u]
          /\ ret' = _extract_domain_site(u)
    /\ pc' = "done"

HtmlToText ==
    /\ pc = "call"
    /\ \E snippet \in Fragments :
          /\ fn' = "_html_to_text"
          /\ args' = [snippet |-> snippet]
          /\ ret' = _html_to_text(snippet)
    /\ pc' = "done"

PickSection ==
    /\ pc = "call"
    /\ \E html \in SectDocs :
          /\ fn' = "_pick_section"
          /\ args' = [html |-> html]
          /\ ret' = _pick_section(html)
    /\ pc' = "done"

CapWordsafe ==
    /\ pc = "call"
    /\ \E s \in Texts, n \in Caps :
          /\ fn' = "_cap_wordsafe"
          /\ args' = [s |-> s, n |-> n]
          /\ ret' = _cap_wordsafe(s, n)
    /\ pc' = "done"

Next == Run \/ ExtractDomainSite \/ HtmlToText \/ PickSection \/ CapWordsafe

Spec == Init /\ [][Next]_vars

\* ------------------------------------------------------------ properties

RunDone == pc = "done" /\ fn = "run"

DomainDone == pc = "done" /\ fn = "_extract_domain_site"

TextDone == pc = "done" /\ fn = "_html_to_text"

PickDone == pc = "done" /\ fn = "_pick_section"

CapDone == pc = "done" /\ fn = "_cap_wordsafe"

\* The text rendered from the selected section of a document, before any
\* truncation.
Rendered(html) == _html_to_text(_pick_section(_strip_blocks(html)))

\* The number of maximal runs of non-whitespace characters of s, each
\* counted at its last character.
WordsOf(s) ==
    Cardinality({i \in 1..Len(s) :
        /\ s[i].c \notin Whitespace
        /\ (i = Len(s) \/ s[i + 1].c \in Whitespace)})

\* The value text of a member of the JSON object.
JsonValue(json, key) ==
    (CHOOSE m \in {json[i] : i \in 1..Len(json)} : m.key = key).value

\* C1: after every run, the word_count output is the decimal string of the
\* number of maximal non-whitespace runs of the returned content (the
\* content after truncation), and the word_count of the JSON payload is that
\* same number.
C1_WordCountOfContent ==
    RunDone =>
        /\ ret.word_count = StrOfNat(WordsOf(ret.content))
        /\ JsonValue(ret.json, "word_count") = StrOfNat(WordsOf(ret.content))

\* A run whose content was truncated and still holds several words.
C1_Witness ==
    /\ RunDone
    /\ ret.content # Rendered(args.html)
    /\ WordsOf(ret.content) >= 2
    /\ ret.word_count = StrOfNat(WordsOf(ret.content))

\* C2: for every max_chars <= 0 run does not truncate, the returned content
\* is the full rendered text whatever its length and word_safe.
C2_NonPositiveDisables ==
    (RunDone /\ args.max_chars.num /\ args.max_chars.val <= 0)
        => ret.content = Rendered(args.html)

\* The exact policy at cap: a text longer than cap becomes its first cap
\* characters followed by "...", cap + 3 characters in all; a text that fits
\* is unchanged.
ExactAt(text, cap, out) ==
    IF StrLen(text) > cap
    THEN /\ out = Cat(Take(text, cap), <<R(".", 3)>>)
         /\ StrLen(out) = cap + 3
    ELSE out = text

\* max_chars brought into the interval of the caps run accepts.
Clamped(v) ==
    IF v < MIN_CHARS THEN MIN_CHARS ELSE IF v > MAX_CHARS THEN MAX_CHARS ELSE v

\* C3, as the specification states it: with word-safe off and a positive
\* max_chars, the content is the rendered text cut by the exact policy at
\* the value passed as max_chars.
C3_ExactAtPassedValue ==
    (RunDone /\ ~args.word_safe /\ args.max_chars.num /\ args.max_chars.val > 0)
        => ExactAt(Rendered(args.html), args.max_chars.val, ret.content)

\* C3, amended: with word-safe off and a positive max_chars, the content is
\* the rendered text cut by the exact policy at max_chars clamped into
\* [100, 100000].
C3_ExactAtClampedValue ==
    (RunDone /\ ~args.word_safe /\ args.max_chars.num /\ args.max_chars.val > 0)
        => ExactAt(Rendered(args.html), Clamped(args.max_chars.val), ret.content)

\* An exact truncation at a cap the caller passed: 150 characters and "...".
C3_Witness ==
    /\ RunDone
    /\ ~args.word_safe
    /\ args.max_chars.num
    /\ args.max_chars.val = 150
    /\ StrLen(Rendered(args.html)) > 150
    /\ StrLen(ret.content) = 153

\* C7, as the specification states it: a max_chars that is non-numeric, or
\* positive and outside [100, 100000], gives the default cap 8000.
C7_OutOfRangeDefaults ==
    (RunDone /\ (\/ ~args.max_chars.num
                 \/ /\ args.max_chars.val > 0
                    /\ (args.max_chars.val < 100 \/ args.max_chars.val > 100000)))
        => ret.content = Cap(args.word_safe, Rendered(args.html),
                             Some(DEFAULT_MAX_CHARS))

\* C7, amended: a non-numeric max_chars gives the default cap 8000; a
\* positive one below 100 gives the cap 100 and one above 100000 gives the
\* cap 100000.
C7_OutOfRangeClamps ==
    RunDone =>
        /\ ~args.max_chars.num =>
               ret.content = Cap(args.word_safe, Rendered(args.html), Some(8000))
        /\ (/\ args.max_chars.num
            /\ args.max_chars.val > 0
            /\ args.max_chars.val < 100) =>
               ret.content = Cap(args.word_safe, Rendered(args.html), Some(100))
        /\ (args.max_chars.num /\ args.max_chars.val > 100000) =>
               ret.content = Cap(args.word_safe, Rendered(args.html), Some(100000))

\* A max_chars above the range on a text longer than 100000 characters: the
\* content is cut at 100000, not at 8000.
C7_Witness ==
    /\ RunDone
    /\ args.max_chars.num
    /\ args.max_chars.val > 100000
    /\ StrLen(Rendered(args.html)) > 100000
    /\ StrLen(ret.content) > 8003
    /\ StrLen(ret.content) <= 100003

\* The character of s at index i, counted from 0.
CharAt(s, i) == Take(s, i + 1)[Len(Take(s, i + 1))].c

\* Index c cuts s between words: at an end of s, or next to whitespace.
AtBoundary(s, c) ==
    \/ c = 0
    \/ c >= StrLen(s)
    \/ CharAt(s, c - 1) \in Whitespace
    \/ CharAt(s, c) \in Whitespace

\* C4: for every text longer than n with a space, tab or newline at an index
\* i, n/2 <= i <= n - 1, word-safe truncation keeps a prefix that ends at a
\* whitespace boundary of the text, so that no word is split, and returns
\* that prefix without its trailing whitespace, followed by " " and the
\* ellipsis.
C4_NoWordSplit ==
    (/\ CapDone
     /\ args.n # None
     /\ Val(args.n) > 0
     /\ StrLen(args.s) > Val(args.n)
     /\ \E i \in 0..(Val(args.n) - 1) :
            2 * i >= Val(args.n) /\ CharAt(args.s, i) \in {" ", "\t", "\n"})
        => \E c \in 0..StrLen(args.s) :
               /\ AtBoundary(args.s, c)
               /\ ret = Cat(RStrip(Take(args.s, c)), <<R(" ", 1), R(Ellipsis, 1)>>)

\* The fields a template can name that the outputs of run show.
ShownFields == {"title", "author", "domain", "site_name", "content", "word_count"}

FieldOf(out, k) ==
    CASE k = "title" -> out.title
      [] k = "author" -> out.author
      [] k = "domain" -> out.domain
      [] k = "site_name" -> out.site_name
      [] k = "content" -> out.content
      [] k = "word_count" -> out.word_count

\* Template t, one lexeme per run, with every {name} of a shown field
\* replaced by the value of the field and everything else kept.
RECURSIVE Substituted(_, _)
Substituted(t, out) ==
    IF t = <<>> THEN <<>>
    ELSE IF /\ Len(t) >= 3
            /\ t[1].c = "{"
            /\ t[2].c \in ShownFields
            /\ t[3].c = "}"
         THEN FieldOf(out, t[2].c) \o Substituted(SubSeq(t, 4, Len(t)), out)
         ELSE <<t[1]>> \o Substituted(Tail(t), out)

PromptAsStated ==
    ret.prompt =
        IF args.prompt_template = <<>> THEN <<>>
        ELSE Norm(Substituted(ExpandBraces(args.prompt_template), ret))

NoDoubledBrace(t) == \A i \in 1..Len(t) : t[i].c \in {"{", "}"} => t[i].n = 1

BraceFree(s) == \A i \in 1..Len(s) : s[i].c \notin {"{", "}"}

WithoutWww(h) == IF StartsWith(h, Www) THEN SubSeq(h, 3, Len(h)) ELSE h

\* d without the longest of the suffixes in list that d ends with, compared
\* in lower case; d itself when it ends with none.
WithoutLongestSuffix(d, list) ==
    LET ends == {k \in 1..Len(list) : EndsWith(LowerStr(d), list[k])}
    IN  IF ends = {} THEN d
        ELSE LET k == CHOOSE x \in ends :
                          \A y \in ends : StrLen(list[x]) >= StrLen(list[y])
             IN  SubSeq(d, 1, Len(d) - Len(list[k]))

OrUnknown(s) == IF s = <<>> THEN Unknown ELSE s

\* C6, as the specification states it: for every URL whose parsed hostname
\* is not empty, domain is the hostname without a leading "www." and
\* site_name is domain without the longest listed suffix it ends with, domain
\* itself when it ends with none.
C6_LongestSuffixFirst ==
    (/\ DomainDone
     /\ ~urlparse_hostname(args.u).raises
     /\ urlparse_hostname(args.u).host # <<>>)
        => ret = << WithoutWww(urlparse_hostname(args.u).host),
                    WithoutLongestSuffix(
                        WithoutWww(urlparse_hostname(args.u).host), exts) >>

\* C6, amended: the same, except that a domain or a site_name that comes out
\* empty is returned as "unknown".
C6_LongestSuffixFirstOrUnknown ==
    (/\ DomainDone
     /\ ~urlparse_hostname(args.u).raises
     /\ urlparse_hostname(args.u).host # <<>>)
        => ret = << OrUnknown(WithoutWww(urlparse_hostname(args.u).host)),
                    OrUnknown(WithoutLongestSuffix(
                        WithoutWww(urlparse_hostname(args.u).host), exts)) >>

\* https://www.example.co.uk/path gives ("example.co.uk", "example").
C6_Witness ==
    /\ DomainDone
    /\ args.u = Lex(<<"https", ":", "//", "www", ".", "example", ".", "co", ".",
                      "uk", "/", "path">>)
    /\ ret = << Lex(<<"example", ".", "co", ".", "uk">>), Lex(<<"example">>) >>

\* The items of a fragment: a <li> opening tag directly followed by text;
\* and the bulleted items of a text: a bullet, a space, then text.
LiItems(s) ==
    {i \in 1..(Len(s) - 1) : s[i].c = "<li>" /\ s[i + 1].c \in {"a", "b"}}

BulletedItems(t) ==
    {j \in 1..(Len(t) - 2) :
        /\ t[j].c = Bullet
        /\ t[j + 1] = R(" ", 1)
        /\ t[j + 2].c \in {"a", "b"}}

\* C8: every <li> opening tag of a fragment is rendered as a bullet and a
\* space directly before the text of the item, so the text shows as many
\* bulleted items as the fragment has list items.
C8_ListItemsBulleted ==
    TextDone =>
        Cardinality(BulletedItems(ret)) = Cardinality(LiItems(args.snippet))

\* The contents of the first match of pattern k of _CANDIDATES: the text
\* between its opening and its closing tag.
ContentsOf(html, k) ==
    Inner(html, Search(html, _CANDIDATES[k].opens, _CANDIDATES[k].closes))

Matches(html, k) == Search(html, _CANDIDATES[k].opens, _CANDIDATES[k].closes).found

\* The matched contents a later one replaces only when strictly longer after
\* whitespace collapsing.
RECURSIVE LongestContents(_, _, _)
LongestContents(html, k, best) ==
    IF k > Len(_CANDIDATES) THEN best
    ELSE IF /\ Matches(html, k)
            /\ StrLen(CollapseWs(ContentsOf(html, k))) > StrLen(CollapseWs(best))
         THEN LongestContents(html, k + 1, ContentsOf(html, k))
         ELSE LongestContents(html, k + 1, best)

\* C9: for every document in which a pattern matches with contents that are
\* not empty, the selector returns the contents of the first <article>,
\* <main> or content <div>, the longest after whitespace collapsing, the
\* earlier pattern on a tie; the contents of the <div>, not its class
\* keyword.
C9_InnerContentsSelected ==
    (/\ PickDone
     /\ \E k \in 1..Len(_CANDIDATES) :
            Matches(args.html, k) /\ ContentsOf(args.html, k) # <<>>)
        => ret = LongestContents(args.html, 1, <<>>)

\* The host the permissive regex finds in u: what follows the first
\* "http://" or "https://" up to the next "/", without a leading "www.".
RegexHost(u) ==
    LET at == {i \in 1..(Len(u) - 2) :
                  /\ u[i].c \in {"http", "https"}
                  /\ u[i + 1].c = ":"
                  /\ u[i + 2].c = "//"}
    IN  IF at = {} THEN <<>>
        ELSE LET i == CHOOSE x \in at : \A y \in at : x <= y
                 rest == SubSeq(u, i + 3, Until(u, i + 3, {"/", "//"}) - 1)
             IN  IF StartsWith(rest, Www) /\ Len(rest) > 2
                 THEN SubSeq(rest, 3, Len(rest)) ELSE rest

RegexSuffixes ==
    << Lex(<<".", "co", ".", "uk">>), Lex(<<".", "com", ".", "au">>),
       Lex(<<".", "com">>), Lex(<<".", "net">>), Lex(<<".", "org">>) >>

RegexOutcome(u) ==
    IF RegexHost(u) # <<>>
    THEN <<RegexHost(u), WithoutLongestSuffix(RegexHost(u), RegexSuffixes)>>
    ELSE <<Unknown, Unknown>>

\* C10, as the specification states it: for every URL string whose parse
\* succeeds with an empty hostname, the result is that of the permissive
\* regex: the host it finds and that host without a trailing .co.uk,
\* .com.au, .com, .net or .org, or ("unknown", "unknown") when it finds none.
C10_RegexOnEmptyHostname ==
    (/\ DomainDone
     /\ ~urlparse_hostname(args.u).raises
     /\ urlparse_hostname(args.u).host = <<>>)
        => ret = RegexOutcome(args.u)

\* C10, amended: a parse that succeeds with an empty hostname gives
\* ("unknown", "unknown") and the regex is not tried; for the URL strings
\* whose parse raises the result is that of the permissive regex.
C10_RegexOnParseError ==
    DomainDone =>
        /\ (/\ ~urlparse_hostname(args.u).raises
            /\ urlparse_hostname(args.u).host = <<>>)
               => ret = <<Unknown, Unknown>>
        /\ urlparse_hostname(args.u).raises => ret = RegexOutcome(args.u)

\* "see https://www.example.com": text before the scheme, the hostname is
\* empty, and the regex, which would find example.com, is not tried.
C10_Witness ==
    /\ DomainDone
    /\ args.u = Lex(<<"see", " ", "https", ":", "//", "www", ".", "example", ".",
                      "com">>)
    /\ ~urlparse_hostname(args.u).raises
    /\ RegexHost(args.u) = Lex(<<"example", ".", "com">>)
    /\ ret = <<Unknown, Unknown>>

====
